---- MODULE Spec2Model ----
(***************************************************************************)
(* Model of the text-generation service of src/app.py: the /generate       *)
(* handler (cache lookup, tokenization, autoregressive decode loop,        *)
(* temperature scaling, greedy / stochastic token selection, decoding,     *)
(* bounded response cache) run by several worker threads at once.          *)
(*                                                                         *)
(* generate is a plain "def" endpoint, so the framework runs every request *)
(* on a worker thread: the handlers interleave at every access to the      *)
(* process-wide dict response_cache.  One thread serves one request.       *)
(*                                                                         *)
(* Numbers.  A temperature is held in thousandths (1000 is 1.0, 5 is       *)
(* 0.005, 0 is 0.0).  A logit is an integer.  The quotient logit /         *)
(* temperature is held exactly, as a fraction, with the three IEEE-754     *)
(* special results a division by 0.0 produces (inf, -inf, nan).            *)
(***************************************************************************)
EXTENDS Integers, Sequences, FiniteSets, TLC

(***************************************************************************)
(* Bounds of the model.                                                    *)
(***************************************************************************)
NumThreads == 2
MaxNewTokens == 2

Threads == 1..NumThreads

(***************************************************************************)
(* Program constants.                                                      *)
(***************************************************************************)
\* app.py:291  "if len(response_cache) < 100"
CacheLimit == 100
\* app.py:252  "if data.temperature < 0.01", in thousandths
GreedyThreshold == 10
\* app.py:245  "if data.temperature != 1.0", in thousandths
UnitTemperature == 1000

(***************************************************************************)
(* The tokenizer (external collaborator): a vocabulary of three tokens,    *)
(* the last of which is the end-of-sequence token, as in GPT-2 where       *)
(* eos_token_id is the last index of the vocabulary.                       *)
(***************************************************************************)
eos_token_id == 2
Vocab == 0..eos_token_id

TokenText(tok) == IF tok = 0 THEN "a" ELSE IF tok = 1 THEN "b" ELSE "<|endoftext|>"

\* tokenizer(prompt).input_ids
Tokenize(prompt) == IF prompt = "a" THEN <<0>> ELSE IF prompt = "b" THEN <<1>> ELSE <<0, 1>>

RECURSIVE DecodeTokens(_)
\* tokenizer.decode(ids, skip_special_tokens=True)
DecodeTokens(ids) ==
  IF ids = <<>> THEN ""
  ELSE (IF Head(ids) = eos_token_id THEN "" ELSE TokenText(Head(ids))) \o DecodeTokens(Tail(ids))

Ones(n) == [i \in 1..n |-> 1]

(***************************************************************************)
(* Requests (PromptInput): no field is validated beyond its type, so a     *)
(* negative max_new_tokens and a temperature of 0.0 are accepted.          *)
(***************************************************************************)
Prompts == {"a", "b"}
TokenCounts == (-1)..MaxNewTokens
Temperatures == {0, 5, UnitTemperature}

PromptInput == [prompt : Prompts, max_new_tokens : TokenCounts, temperature : Temperatures]

\* requests whose prompts carry the separator and the digits of the key
KeyPrompts == {"a", "a_1", "a_1_1.0", "1", "1_1"}
KeyInput == [prompt : KeyPrompts, max_new_tokens : 0..1, temperature : {0, UnitTemperature}]

NoRequest == [prompt |-> "", max_new_tokens |-> 0, temperature |-> UnitTemperature]
NoResponse == [prompt |-> "", generated_text |-> "", tokens_generated |-> -1]

\* str(float) of a temperature
FloatStr(temp) ==
  IF temp = 0 THEN "0.0" ELSE IF temp = 5 THEN "0.005" ELSE IF temp = UnitTemperature THEN "1.0"
  ELSE ToString(temp) \o "e-03"

\* hashlib.md5(s).hexdigest(): a digest, taken to be free of collisions
md5hex(s) == "md5:" \o s

\* app.py:36  f"{prompt}_{max_tokens}_{temp}"
key_string(prompt, max_tokens, temp) ==
  prompt \o "_" \o ToString(max_tokens) \o "_" \o FloatStr(temp)

\* a key that leaves the temperature out
get_cache_key_NoTemp(prompt, max_tokens, temp) ==
  md5hex(prompt \o "_" \o ToString(max_tokens))

get_cache_key(prompt, max_tokens, temp) == md5hex(key_string(prompt, max_tokens, temp))

KeyOf(d) == get_cache_key(d.prompt, d.max_new_tokens, d.temperature)

GenerationOutput(prompt, text, n) ==
  [prompt |-> prompt, generated_text |-> text, tokens_generated |-> n]

(***************************************************************************)
(* The Logits Provider (session.run): a pure function of the token         *)
(* sequence it is given.  A session is a table of logit vectors, read at   *)
(* the length of the sequence (the last row serves every longer one).      *)
(***************************************************************************)
Sessions ==
  { << <<1, 5, -1>>, <<-1, -2, 3>> >>,
    << <<-1, -2, 3>> >>,
    << <<2, 2, 1>>, <<-3, -1, -2>>, <<1, 0, 2>> >> }

SessionRun(sess, ids) ==
  sess[IF Len(ids) < 1 THEN 1 ELSE IF Len(ids) > Len(sess) THEN Len(sess) ELSE Len(ids)]

(***************************************************************************)
(* Floating-point values of the scaled logits.                             *)
(***************************************************************************)
Fin(n, d) == [kind |-> "fin", num |-> n, den |-> d]
PosInf == [kind |-> "inf", num |-> 1, den |-> 0]
NegInf == [kind |-> "inf", num |-> -1, den |-> 0]
NaN == [kind |-> "nan", num |-> 0, den |-> 0]

\* x / (temp / 1000) for a finite x = l: IEEE-754 division
FloatDiv(l, temp) ==
  IF temp = 0 THEN (IF l > 0 THEN PosInf ELSE IF l < 0 THEN NegInf ELSE NaN)
  ELSE IF temp > 0 THEN Fin(l * 1000, temp)
  ELSE Fin(-(l * 1000), -temp)

\* a < b on the floats above (false whenever a nan is involved)
FloatLess(a, b) ==
  IF a.kind = "nan" \/ b.kind = "nan" THEN FALSE
  ELSE IF a.kind = "inf" THEN a.num < 0 /\ ~(b.kind = "inf" /\ b.num < 0)
  ELSE IF b.kind = "inf" THEN b.num > 0
  ELSE a.num * b.den < b.num * a.den

\* app.py:245-246
ApplyTemperature(next_token_logits, temp) ==
  IF temp # UnitTemperature
  THEN [i \in DOMAIN next_token_logits |-> FloatDiv(next_token_logits[i], temp)]
  ELSE [i \in DOMAIN next_token_logits |-> Fin(next_token_logits[i], 1)]

\* np.argmax: the first nan if there is one, else the first maximum; 0-based
np_argmax(v) ==
  IF \E i \in DOMAIN v : v[i].kind = "nan"
  THEN (CHOOSE i \in DOMAIN v : v[i].kind = "nan" /\ \A j \in DOMAIN v : v[j].kind = "nan" => i <= j) - 1
  ELSE (CHOOSE i \in DOMAIN v :
          /\ \A j \in DOMAIN v : ~FloatLess(v[i], v[j])
          /\ \A j \in DOMAIN v : (\A k \in DOMAIN v : ~FloatLess(v[j], v[k])) => i <= j) - 1

IsGreedy(temp) == temp < GreedyThreshold

\* a selection that draws from the distribution at every temperature
SelectToken_AlwaysSample(next_token_logits, temp) == Vocab

\* app.py:252-255: the tokens the step may select
SelectToken(next_token_logits, temp) ==
  IF IsGreedy(temp)
  THEN {np_argmax(ApplyTemperature(next_token_logits, temp))}
  ELSE Vocab

\* a loop that counts a negative max_new_tokens by its magnitude
LoopContinues_AbsCount(step, max_new_tokens) ==
  step < (IF max_new_tokens < 0 THEN -max_new_tokens ELSE max_new_tokens)

\* a loop that runs one iteration too many
LoopContinues_OffByOne(step, max_new_tokens) == step <= max_new_tokens

\* app.py:227: "for _ in range(max_new_tokens)" has another iteration
LoopContinues(step, max_new_tokens) == step < max_new_tokens

\* a loop that never recognises the end-of-sequence token
IsEos_Never(tok) == FALSE

\* app.py:258
IsEos(tok) == tok = eos_token_id

\* a lookup that never finds anything
CacheHit_Never(cache, key) == FALSE

\* app.py:208
CacheHit(cache, key) == key \in DOMAIN cache

\* a size test that admits one entry too many
CanAdmit_OffByOne(cache) == Cardinality(DOMAIN cache) <= CacheLimit

\* app.py:291
CanAdmit(cache) == Cardinality(DOMAIN cache) < CacheLimit

\* a store that keeps the entry a key already has (dict.setdefault)
StoreEntry_KeepFirst(cache, key, resp) ==
  [k \in DOMAIN cache \cup {key} |-> IF k \in DOMAIN cache THEN cache[k] ELSE resp]

\* a store that makes room by dropping what the cache holds
StoreEntry_Evicting(cache, key, resp) == [k \in {key} |-> resp]

\* app.py:292  response_cache[cache_key] = response
StoreEntry(cache, key, resp) ==
  [k \in DOMAIN cache \cup {key} |-> IF k = key THEN resp ELSE cache[k]]

(***************************************************************************)
(* Earlier traffic: n requests for prompt "a" with distinct negative       *)
(* max_new_tokens, each of which ran zero iterations and was cached.       *)
(***************************************************************************)
EarlierRequest(i) == [prompt |-> "a", max_new_tokens |-> -(10 + i), temperature |-> UnitTemperature]

EarlierCache(n) ==
  LET keys == {KeyOf(EarlierRequest(i)) : i \in 1..n}
  IN [k \in keys |-> GenerationOutput("a", DecodeTokens(Tokenize("a")), 0)]

EarlierCounts == {0, CacheLimit - 1, CacheLimit}

VARIABLES
  response_cache,   \* the dict response_cache
  session,          \* model_state["session"]
  pc,               \* where each thread's handler stands
  data,             \* the request a thread serves
  input_ids,        \* DecodeState: token sequence
  attention_mask,   \* DecodeState: attention mask
  tokens_generated, \* DecodeState: counter
  step,             \* the loop variable of "for _ in range(...)"
  logits,           \* the vector the last session.run returned
  next_token_id,    \* the token selected last, -1 before any selection
  response,         \* the value the handler returns
  calls,            \* observer: session.run invocations made for the request
  hit,              \* observer: the lookup at line 208 found the key
  stored,           \* observer: line 292 ran for the request
  started_after     \* observer: the requests already finished when this one arrived

vars == <<response_cache, session, pc, data, input_ids, attention_mask, tokens_generated,
          step, logits, next_token_id, response, calls, hit, stored, started_after>>

local == <<input_ids, attention_mask, tokens_generated, step, logits, next_token_id>>

Init ==
  /\ \E n \in EarlierCounts : response_cache = EarlierCache(n)
  /\ session \in Sessions
  /\ pc = [t \in Threads |-> "idle"]
  /\ data = [t \in Threads |-> NoRequest]
  /\ input_ids = [t \in Threads |-> <<>>]
  /\ attention_mask = [t \in Threads |-> <<>>]
  /\ tokens_generated = [t \in Threads |-> 0]
  /\ step = [t \in Threads |-> 0]
  /\ logits = [t \in Threads |-> <<>>]
  /\ next_token_id = [t \in Threads |-> -1]
  /\ response = [t \in Threads |-> NoResponse]
  /\ calls = [t \in Threads |-> 0]
  /\ hit = [t \in Threads |-> FALSE]
  /\ stored = [t \in Threads |-> FALSE]
  /\ started_after = [t \in Threads |-> {}]

\* app.py:206-210: the request arrives, its key is looked up
LookupIn(t, requests) ==
  /\ pc[t] = "idle"
  /\ \E d \in requests :
       /\ data' = [data EXCEPT ![t] = d]
       /\ IF CacheHit(response_cache, KeyOf(d))
          THEN /\ response' = [response EXCEPT ![t] = response_cache[KeyOf(d)]]
               /\ hit' = [hit EXCEPT ![t] = TRUE]
               /\ pc' = [pc EXCEPT ![t] = "done"]
          ELSE /\ pc' = [pc EXCEPT ![t] = "tokenize"]
               /\ UNCHANGED <<response, hit>>
  /\ started_after' = [started_after EXCEPT ![t] = {u \in Threads : pc[u] \in {"done", "failed"}}]
  /\ UNCHANGED <<response_cache, session, local, calls, stored>>

Lookup(t) == LookupIn(t, PromptInput)

\* app.py:216-224
Preprocess(t) ==
  /\ pc[t] = "tokenize"
  /\ input_ids' = [input_ids EXCEPT ![t] = Tokenize(data[t].prompt)]
  /\ attention_mask' = [attention_mask EXCEPT ![t] = Ones(Len(Tokenize(data[t].prompt)))]
  /\ tokens_generated' = [tokens_generated EXCEPT ![t] = 0]
  /\ step' = [step EXCEPT ![t] = 0]
  /\ pc' = [pc EXCEPT ![t] = "loop"]
  /\ UNCHANGED <<response_cache, session, data, logits, next_token_id, response, calls, hit,
                 stored, started_after>>

\* app.py:227-242: one more iteration, the provider is called
RunInference(t) ==
  /\ pc[t] = "loop"
  /\ LoopContinues(step[t], data[t].max_new_tokens)
  /\ logits' = [logits EXCEPT ![t] = SessionRun(session, input_ids[t])]
  /\ calls' = [calls EXCEPT ![t] = @ + 1]
  /\ pc' = [pc EXCEPT ![t] = "sample"]
  /\ UNCHANGED <<response_cache, session, data, input_ids, attention_mask, tokens_generated,
                 step, next_token_id, response, hit, stored, started_after>>

\* app.py:227: the range is exhausted
LoopExit(t) ==
  /\ pc[t] = "loop"
  /\ ~LoopContinues(step[t], data[t].max_new_tokens)
  /\ pc' = [pc EXCEPT ![t] = "decode"]
  /\ UNCHANGED <<response_cache, session, data, local, response, calls, hit, stored,
                 started_after>>

\* a step that appends the token but forgets the attention mask
SampleStep_NoMask(t) ==
  /\ pc[t] = "sample"
  /\ \E tok \in SelectToken(logits[t], data[t].temperature) :
       /\ next_token_id' = [next_token_id EXCEPT ![t] = tok]
       /\ IF IsEos(tok)
          THEN /\ pc' = [pc EXCEPT ![t] = "decode"]
               /\ UNCHANGED <<input_ids, tokens_generated, step>>
          ELSE /\ input_ids' = [input_ids EXCEPT ![t] = Append(@, tok)]
               /\ tokens_generated' = [tokens_generated EXCEPT ![t] = @ + 1]
               /\ step' = [step EXCEPT ![t] = @ + 1]
               /\ pc' = [pc EXCEPT ![t] = "loop"]
  /\ UNCHANGED <<response_cache, session, data, attention_mask, logits, response, calls, hit,
                 stored, started_after>>

\* app.py:244-271: select the token, stop on end-of-sequence, else append
SampleStep(t) ==
  /\ pc[t] = "sample"
  /\ \E tok \in SelectToken(logits[t], data[t].temperature) :
       /\ next_token_id' = [next_token_id EXCEPT ![t] = tok]
       /\ IF IsEos(tok)
          THEN /\ pc' = [pc EXCEPT ![t] = "decode"]
               /\ UNCHANGED <<input_ids, attention_mask, tokens_generated, step>>
          ELSE /\ input_ids' = [input_ids EXCEPT ![t] = Append(@, tok)]
               /\ attention_mask' = [attention_mask EXCEPT ![t] = Append(@, 1)]
               /\ tokens_generated' = [tokens_generated EXCEPT ![t] = @ + 1]
               /\ step' = [step EXCEPT ![t] = @ + 1]
               /\ pc' = [pc EXCEPT ![t] = "loop"]
  /\ UNCHANGED <<response_cache, session, data, logits, response, calls, hit, stored,
                 started_after>>

\* app.py:273-288
Decode(t) ==
  /\ pc[t] = "decode"
  /\ response' = [response EXCEPT ![t] =
       GenerationOutput(data[t].prompt, DecodeTokens(input_ids[t]), tokens_generated[t])]
  /\ pc' = [pc EXCEPT ![t] = "store"]
  /\ UNCHANGED <<response_cache, session, data, local, calls, hit, stored, started_after>>

\* app.py:291: the size test
StoreCheck(t) ==
  /\ pc[t] = "store"
  /\ pc' = [pc EXCEPT ![t] = IF CanAdmit(response_cache) THEN "write" ELSE "done"]
  /\ UNCHANGED <<response_cache, session, data, local, response, calls, hit, stored,
                 started_after>>

\* app.py:292-294: the assignment, then the return
StoreWrite(t) ==
  /\ pc[t] = "write"
  /\ response_cache' = StoreEntry(response_cache, KeyOf(data[t]), response[t])
  /\ stored' = [stored EXCEPT ![t] = TRUE]
  /\ pc' = [pc EXCEPT ![t] = "done"]
  /\ UNCHANGED <<session, data, local, response, calls, hit, started_after>>

\* the places of the handler where a collaborator can raise
CanRaise(t) ==
  \/ pc[t] \in {"tokenize", "decode"}
  \/ pc[t] = "loop" /\ LoopContinues(step[t], data[t].max_new_tokens)
  \/ pc[t] = "sample" /\ ~IsGreedy(data[t].temperature)

\* a failure path that caches and returns what was generated so far
Raise_CachingPartial(t) ==
  /\ CanRaise(t)
  /\ pc' = [pc EXCEPT ![t] = "failed"]
  /\ response' = [response EXCEPT ![t] =
       GenerationOutput(data[t].prompt, DecodeTokens(input_ids[t]), tokens_generated[t])]
  /\ response_cache' = StoreEntry(response_cache, KeyOf(data[t]), response'[t])
  /\ UNCHANGED <<session, data, local, calls, hit, stored, started_after>>

\* an exception of tokenizer(...), session.run, np.random.choice or tokenizer.decode
\* unwinds the handler: the locals are gone, nothing is returned
Raise(t) ==
  /\ CanRaise(t)
  /\ pc' = [pc EXCEPT ![t] = "failed"]
  /\ input_ids' = [input_ids EXCEPT ![t] = <<>>]
  /\ attention_mask' = [attention_mask EXCEPT ![t] = <<>>]
  /\ tokens_generated' = [tokens_generated EXCEPT ![t] = 0]
  /\ step' = [step EXCEPT ![t] = 0]
  /\ logits' = [logits EXCEPT ![t] = <<>>]
  /\ next_token_id' = [next_token_id EXCEPT ![t] = -1]
  /\ UNCHANGED <<response_cache, session, data, response, calls, hit, stored, started_after>>

Next ==
  \E t \in Threads :
    \/ Lookup(t)
    \/ Preprocess(t)
    \/ RunInference(t)
    \/ LoopExit(t)
    \/ SampleStep(t)
    \/ Decode(t)
    \/ StoreCheck(t)
    \/ StoreWrite(t)
    \/ Raise(t)

Spec == Init /\ [][Next]_vars

\* the steps a worker thread takes by itself once it holds a request; a
\* provider or tokenizer call that is made returns
Progress(t) ==
  \/ Preprocess(t)
  \/ RunInference(t)
  \/ LoopExit(t)
  \/ SampleStep(t)
  \/ Decode(t)
  \/ StoreCheck(t)
  \/ StoreWrite(t)

\* the service one entry short of a full cache (a response may be admitted
\* or may find the cache full), with the provider of three rows
FairInit ==
  /\ Init
  /\ response_cache = EarlierCache(CacheLimit - 1)
  /\ Len(session) = 3

\* every worker thread is scheduled again and again
FairSpec == FairInit /\ [][Next]_vars /\ \A t \in Threads : WF_vars(Progress(t))

\* the service with an empty cache
KeyInit == Init /\ response_cache = EarlierCache(0)

KeyNext ==
  \E t \in Threads :
    \/ LookupIn(t, KeyInput)
    \/ Preprocess(t)
    \/ RunInference(t)
    \/ LoopExit(t)
    \/ SampleStep(t)
    \/ Decode(t)
    \/ StoreCheck(t)
    \/ StoreWrite(t)
    \/ Raise(t)

\* the service receiving requests whose prompts look like parts of a key
KeySpec == KeyInit /\ [][KeyNext]_vars

(***************************************************************************)
(* Reference notions the claims are stated with.                           *)
(***************************************************************************)
\* the index (0-based) of the maximum logit, the lowest such index on ties
ArgmaxLowest(l) ==
  (CHOOSE i \in DOMAIN l :
     /\ \A j \in DOMAIN l : l[j] <= l[i]
     /\ \A j \in DOMAIN l : l[j] = l[i] => i <= j) - 1

RECURSIVE GreedyTrace(_, _, _)
\* the tokens t1..tk the provider scores highest on successive calls, up to
\* the first end-of-sequence token or n calls
GreedyTrace(sess, ids, n) ==
  IF n <= 0 THEN <<>>
  ELSE LET tok == ArgmaxLowest(SessionRun(sess, ids))
       IN IF tok = eos_token_id THEN <<>>
          ELSE <<tok>> \o GreedyTrace(sess, Append(ids, tok), n - 1)

\* the request of t went through the decode loop and its outcome is known
Completed(t) == pc[t] \in {"store", "write", "done"}
Returned(t) == pc[t] = "done"
Missed(t) == pc[t] \notin {"idle", "failed"} /\ ~hit[t]

\* C1: in every reachable state the response cache holds at most 100 entries.
C1_CacheAtMostLimit == Cardinality(DOMAIN response_cache) <= CacheLimit

\* C2 (as claimed): every request that completes has tokens_generated <=
\* max_new_tokens, with equality unless end-of-sequence was selected.
C2_TokensWithinLimit_AnyRequest ==
  \A t \in Threads :
    Returned(t) =>
      /\ response[t].tokens_generated <= data[t].max_new_tokens
      /\ Missed(t) =>
           \/ response[t].tokens_generated = data[t].max_new_tokens
           \/ next_token_id[t] = eos_token_id

\* C2 (amended): every request with max_new_tokens >= 0 that completes has
\* tokens_generated <= max_new_tokens, with equality unless end-of-sequence
\* was selected at some step of the loop.
C2_TokensWithinLimit ==
  \A t \in Threads :
    (Returned(t) /\ data[t].max_new_tokens >= 0) =>
      /\ response[t].tokens_generated <= data[t].max_new_tokens
      /\ Missed(t) =>
           \/ response[t].tokens_generated = data[t].max_new_tokens
           \/ next_token_id[t] = eos_token_id

C2_Witness ==
  \E t, u \in Threads :
    /\ Returned(t) /\ Missed(t) /\ data[t].max_new_tokens >= 2
    /\ response[t].tokens_generated = data[t].max_new_tokens
    /\ Returned(u) /\ Missed(u) /\ data[u].max_new_tokens >= 2
    /\ response[u].tokens_generated = 1 /\ next_token_id[u] = eos_token_id

\* C3: at every temperature below 0.01 the token selected at a step is the
\* index of the maximum logit of the vector the provider returned, the lowest
\* such index on ties.
C3_GreedyPicksArgmax ==
  \A t \in Threads :
    (IsGreedy(data[t].temperature) /\ next_token_id[t] # -1 /\ pc[t] # "sample") =>
      next_token_id[t] = ArgmaxLowest(logits[t])

\* C4 (as claimed): of two identical requests run one after the other, after
\* any history, the second returns what the first returned and makes no
\* provider call.
C4_SecondIsServedFromCache_AnyHistory ==
  \A t1, t2 \in Threads :
    (t1 # t2 /\ Returned(t1) /\ Returned(t2) /\ t1 \in started_after[t2]
       /\ data[t1] = data[t2]) =>
      (response[t2] = response[t1] /\ calls[t2] = 0)

\* no request other than t1 and t2 with the key of t1 overlaps them
NoOverlap(t1, t2) ==
  \A u \in Threads \ {t1, t2} :
    \/ pc[u] = "idle"
    \/ KeyOf(data[u]) # KeyOf(data[t1])
    \/ u \in started_after[t1]
    \/ t2 \in started_after[u]

\* C4 (amended): of two identical requests run one after the other, the
\* second returns what the first returned and makes no provider call,
\* provided the response of the first is in the cache when the first returns
\* (its key was cached at its lookup, or the cache held fewer than 100
\* entries at its size test) and no other request with that key overlaps.
C4_SecondIsServedFromCache ==
  \A t1, t2 \in Threads :
    (t1 # t2 /\ Returned(t1) /\ Returned(t2) /\ t1 \in started_after[t2]
       /\ data[t1] = data[t2] /\ (stored[t1] \/ hit[t1]) /\ NoOverlap(t1, t2)) =>
      (hit[t2] /\ response[t2] = response[t1] /\ calls[t2] = 0)

C4_Witness ==
  \E t1, t2 \in Threads :
    /\ t1 # t2 /\ Returned(t1) /\ Returned(t2) /\ t1 \in started_after[t2]
    /\ data[t1] = data[t2] /\ stored[t1] /\ hit[t2]
    /\ data[t1].temperature = UnitTemperature /\ calls[t1] = 2
    /\ response[t1].tokens_generated = 2

\* C5 (as claimed): once a key is mapped to a response, it stays mapped to
\* that same response in every later state.
C5_EntriesWriteOnce ==
  [][\A k \in DOMAIN response_cache :
       k \in DOMAIN response_cache' /\ response_cache'[k] = response_cache[k]]_vars

\* C5 (amended): once a key is mapped it stays mapped in every later state
\* (no eviction, no invalidation); its response is replaced only by the store
\* of a request for the same key that had missed the cache before the entry
\* was inserted, and by nothing else.
C5_EntriesNeverRemoved ==
  [][\A k \in DOMAIN response_cache :
       /\ k \in DOMAIN response_cache'
       /\ response_cache'[k] # response_cache[k] =>
            \E t \in Threads :
              /\ pc[t] = "write" /\ pc'[t] = "done" /\ ~hit[t]
              /\ KeyOf(data[t]) = k /\ response_cache'[k] = response[t]]_vars

C5_Witness ==
  \E t1, t2 \in Threads :
    /\ t1 # t2 /\ stored[t1] /\ stored[t2] /\ data[t1] = data[t2]
    /\ response[t1] # response[t2]
    /\ response_cache[KeyOf(data[t1])] = response[t2]
    /\ Cardinality(DOMAIN response_cache) >= CacheLimit

\* C6: when end-of-sequence is selected the loop ends at once: the token is
\* not appended to the token sequence or the mask, tokens_generated is not
\* incremented, and no provider call is made for the request from then on.
C6_EosStopsTheLoop ==
  [][\A t \in Threads :
       next_token_id'[t] = eos_token_id =>
         /\ input_ids'[t] = input_ids[t]
         /\ attention_mask'[t] = attention_mask[t]
         /\ tokens_generated'[t] = tokens_generated[t]
         /\ calls'[t] = calls[t]
         /\ pc'[t] \notin {"loop", "sample"}]_vars

C6_Witness ==
  \E t \in Threads :
    /\ Returned(t) /\ next_token_id[t] = eos_token_id
    /\ data[t].max_new_tokens = 2 /\ tokens_generated[t] = 1 /\ calls[t] = 2
    /\ input_ids[t] = Append(Tokenize(data[t].prompt), 1)

\* C7: at a temperature below the threshold, if the provider scores t1..tk
\* (none end-of-sequence) highest on successive calls and end-of-sequence
\* next, with k < max_new_tokens, the final sequence is the prompt tokens
\* followed by t1..tk, tokens_generated = k and k+1 provider calls are made.
C7_GreedyTrace ==
  \A t \in Threads :
    LET prompt_ids == Tokenize(data[t].prompt)
        trace == GreedyTrace(session, prompt_ids, data[t].max_new_tokens)
    IN (Returned(t) /\ Missed(t) /\ IsGreedy(data[t].temperature)
          /\ Len(trace) < data[t].max_new_tokens) =>
         /\ input_ids[t] = prompt_ids \o trace
         /\ response[t].tokens_generated = Len(trace)
         /\ calls[t] = Len(trace) + 1

\* C8: a request in which the tokenizer or the provider fails ends in
\* failure: it returns no response, and it has written nothing to the cache
\* (the failing step leaves the cache as it is, the request never stored).
C8_FailureLeavesNoTrace ==
  [][\A t \in Threads :
       /\ pc[t] = "failed" => pc'[t] = "failed"
       /\ pc'[t] = "failed" =>
            /\ response'[t] = NoResponse
            /\ ~stored'[t]
            /\ pc[t] # "failed" => response_cache' = response_cache]_vars

C8_Witness ==
  \E t \in Threads : pc[t] = "failed" /\ calls[t] = 2 /\ data[t].temperature = UnitTemperature

\* C9: with max_new_tokens = 0 the loop runs zero iterations: no provider
\* call, tokens_generated = 0, and the sequence decoded into generated_text
\* is the tokenized prompt.
C9_ZeroTokensRequested ==
  \A t \in Threads :
    (pc[t] # "idle" /\ data[t].max_new_tokens = 0) =>
      /\ calls[t] = 0
      /\ tokens_generated[t] = 0
      /\ pc[t] \in {"loop", "decode", "store", "write", "done"} /\ ~hit[t] =>
           input_ids[t] = Tokenize(data[t].prompt)
      /\ Completed(t) =>
           response[t] = GenerationOutput(data[t].prompt,
                                          DecodeTokens(Tokenize(data[t].prompt)), 0)

C9_Witness ==
  \E t \in Threads :
    Returned(t) /\ Missed(t) /\ data[t].max_new_tokens = 0 /\ response[t].generated_text = "b"

\* C10: two runs of the loop for the same prompt, max_new_tokens and
\* temperature below 0.01, against the same provider, end with the same
\* token sequence and the same tokens_generated.
C10_GreedyIsDeterministic ==
  \A t1, t2 \in Threads :
    (Completed(t1) /\ Completed(t2) /\ Missed(t1) /\ Missed(t2)
       /\ data[t1] = data[t2] /\ IsGreedy(data[t1].temperature)) =>
      /\ input_ids[t1] = input_ids[t2]
      /\ tokens_generated[t1] = tokens_generated[t2]
      /\ response[t1] = response[t2]

C10_Witness ==
  \E t1, t2 \in Threads :
    /\ t1 # t2 /\ Returned(t1) /\ Returned(t2) /\ Missed(t1) /\ Missed(t2)
    /\ data[t1] = data[t2] /\ IsGreedy(data[t1].temperature)
    /\ tokens_generated[t1] = 2

InLoop(t) == pc[t] \in {"loop", "sample", "decode", "store", "write", "done"} /\ ~hit[t]

\* C12: at every point of the decode loop the token sequence and the mask
\* have the same length, the prompt's token count plus tokens_generated; the
\* first tokens are the prompt's; the mask is all ones; each accepted step
\* grows both by exactly one element (a 1 for the mask) and the counter by one.
C12_DecodeStateInvariant ==
  /\ [](\A t \in Threads :
          InLoop(t) =>
            LET prompt_ids == Tokenize(data[t].prompt)
            IN /\ Len(input_ids[t]) = Len(attention_mask[t])
               /\ Len(input_ids[t]) = Len(prompt_ids) + tokens_generated[t]
               /\ SubSeq(input_ids[t], 1, Len(prompt_ids)) = prompt_ids
               /\ \A i \in DOMAIN attention_mask[t] : attention_mask[t][i] = 1)
  /\ [][\A t \in Threads :
          (InLoop(t) /\ pc'[t] # "failed" /\
             (input_ids'[t] # input_ids[t] \/ attention_mask'[t] # attention_mask[t]
                \/ tokens_generated'[t] # tokens_generated[t])) =>
            /\ pc[t] = "sample"
            /\ input_ids'[t] = Append(input_ids[t], next_token_id'[t])
            /\ next_token_id'[t] # eos_token_id
            /\ attention_mask'[t] = Append(attention_mask[t], 1)
            /\ tokens_generated'[t] = tokens_generated[t] + 1]_vars

C12_Witness ==
  \E t \in Threads :
    /\ pc[t] = "sample" /\ tokens_generated[t] = 1
    /\ Len(input_ids[t]) = 2 /\ attention_mask[t] = <<1, 1>>

\* C13: a request whose key is in the cache at its lookup returns the stored
\* response, calls neither the tokenizer nor the provider, and leaves the
\* cache unchanged.
C13_HitPath ==
  [][\A t \in Threads :
       /\ (pc[t] = "idle" /\ pc'[t] # "idle" /\ KeyOf(data'[t]) \in DOMAIN response_cache) =>
            /\ pc'[t] = "done"
            /\ response'[t] = response_cache[KeyOf(data'[t])]
            /\ response_cache' = response_cache
            /\ calls'[t] = 0 /\ input_ids'[t] = <<>>
       /\ hit[t] =>
            /\ pc'[t] = "done" /\ response'[t] = response[t]
            /\ calls'[t] = 0 /\ input_ids'[t] = <<>> /\ ~stored'[t]]_vars

C13_Witness ==
  \E t \in Threads :
    /\ Returned(t) /\ hit[t] /\ calls[t] = 0
    /\ response[t].tokens_generated = 2 /\ response[t].prompt = data[t].prompt

C15_NoSingleFlight ==
  [][\A t, u \in Threads :
       (t # u /\ Missed(t) /\ Missed(u) /\ data[t] = data[u] /\ stored[u]) =>
         /\ (pc[t] = "store" /\ pc'[t] # "store") =>
              \/ pc'[t] = "write" /\ response_cache' = response_cache
              \/ /\ pc'[t] = "done"
                 /\ ~stored'[t]
                 /\ Cardinality(DOMAIN response_cache) >= CacheLimit
                 /\ response_cache' = response_cache
         /\ (pc[t] = "write" /\ pc'[t] # "write") =>
              /\ pc'[t] = "done"
              /\ stored'[t]
              /\ DOMAIN response_cache' = DOMAIN response_cache
              /\ response_cache'[KeyOf(data[t])] = response[t]
              /\ \A k \in DOMAIN response_cache \ {KeyOf(data[t])} :
                   response_cache'[k] = response_cache[k]]_vars

C15_Witness ==
  \E t, u \in Threads :
    /\ t # u /\ data[t] = data[u]
    /\ Returned(t) /\ Missed(t) /\ calls[t] >= 1
    /\ Returned(u) /\ Missed(u) /\ calls[u] >= 1
    /\ response[t] # response[u]
    /\ stored[u] /\ ~stored[t]
    /\ response_cache[KeyOf(data[u])] = response[u]
    /\ Cardinality(DOMAIN response_cache) = CacheLimit

\* C16: a request with max_new_tokens <= 0 is not rejected and runs as one
\* with max_new_tokens = 0: no provider call, tokens_generated = 0, and the
\* response carries the tokenized prompt, decoded, with tokens_generated 0.
C16_NonPositiveActsAsZero ==
  \A t \in Threads :
    (pc[t] # "idle" /\ data[t].max_new_tokens <= 0) =>
      /\ calls[t] = 0
      /\ tokens_generated[t] = 0
      /\ pc[t] \notin {"loop", "sample"} \/ step[t] = 0
      /\ pc[t] # "sample"
      /\ (pc[t] \in {"loop", "decode", "store", "write", "done"} /\ ~hit[t]) =>
           /\ input_ids[t] = Tokenize(data[t].prompt)
           /\ attention_mask[t] = Ones(Len(input_ids[t]))
      /\ (Completed(t) /\ ~hit[t]) =>
           response[t] = GenerationOutput(data[t].prompt,
                                          DecodeTokens(Tokenize(data[t].prompt)), 0)

C16_Witness ==
  \E t \in Threads :
    /\ Returned(t) /\ Missed(t) /\ data[t].max_new_tokens < 0
    /\ response[t] = GenerationOutput("a", "a", 0)

\* C17: requests with the same (prompt, max_new_tokens, temperature) have
\* the same key, requests that differ in any of the three have different
\* '_'-joined strings and different keys, and a request served from the
\* cache gets the response that a request with its own prompt,
\* max_new_tokens and temperature computed and stored.
C17_KeyFaithful ==
  \A t \in Threads :
    pc[t] # "idle" =>
      /\ \A u \in Threads :
           pc[u] # "idle" =>
             /\ data[t] = data[u] => KeyOf(data[t]) = KeyOf(data[u])
             /\ data[t] # data[u] =>
                  /\ key_string(data[t].prompt, data[t].max_new_tokens, data[t].temperature)
                       # key_string(data[u].prompt, data[u].max_new_tokens, data[u].temperature)
                  /\ KeyOf(data[t]) # KeyOf(data[u])
      /\ hit[t] =>
           /\ response[t].prompt = data[t].prompt
           /\ response[t].tokens_generated <= data[t].max_new_tokens
           /\ \E u \in Threads \ {t} :
                /\ stored[u] /\ ~hit[u]
                /\ data[u] = data[t]
                /\ response[t] = response[u]

C17_Witness ==
  \E t, u \in Threads :
    /\ hit[t] /\ stored[u] /\ response[t] = response[u]
    /\ data[t] = [prompt |-> "a_1", max_new_tokens |-> 1, temperature |-> UnitTemperature]
    /\ response[t].tokens_generated = 1

====
